---- MODULE Spec2Model ----
(***************************************************************************)
(* A model of notion_requests.client: the Client (headers, url prefix,     *)
(* request), the paginate generator, and the endpoint methods that either  *)
(* return a decoded response (single-entity operations) or a generator     *)
(* (list/query operations).                                                *)
(*                                                                         *)
(* A Python generator object is a frame with a position pc:                *)
(*   "start"  created, body not yet entered                                *)
(*   "data"   suspended at paginate's `yield data`                         *)
(*   "fn"     suspended at paginate's `yield fn(..)`                       *)
(*   "done"   returned or raised; every later next() is StopIteration      *)
(* The endpoint methods that contain `yield from` are generator functions: *)
(* calling one creates a frame and runs nothing.                           *)
(***************************************************************************)
EXTENDS Integers, Sequences, FiniteSets, TLC

VARIABLES headers, url_prefix, auth, srvPages, srvFailAt, srvBareAt,
          status, callerParams, gens, ret, log

vars == <<headers, url_prefix, auth, srvPages, srvFailAt, srvBareAt,
          status, callerParams, gens, ret, log>>

\* The longest listing the server holds, in pages.
MaxPages == 3

\* The call sites of the consumer: each makes one call through the client.
Slots == {1, 2}

None == "None"

Tokens == {"secret_token"}

Ids == {"id1"}

\* ------------------------------------------------------------------ dicts

\* d[k] = v on a Python dict: adds the key or overrides its value.
SetKey(d, k, v) == [j \in (DOMAIN d) \cup {k} |-> IF j = k THEN v ELSE d[j]]

EmptyDict == [k \in {} |-> None]

\* The payloads a caller passes as **payload.
FruitPayload == [page_size |-> "1", filter |-> "fruit"]

PagePayload == [page_size |-> "1"]

ChildrenPayload == [children |-> "bulleted_list_item"]

\* ----------------------------------------------------------------- Client

BASE_URL == "https://api.notion.com"
API_VERSION == "v1"
NOTION_VERSION == "2021-08-16"

MakeHeaders(token, notion_version) ==
    [Authorization |-> <<"Bearer", token>>,
     NotionVersion |-> notion_version,
     ContentType   |-> "application/json"]

MakeUrlPrefix(api_version) == <<BASE_URL, api_version>>

\* Client.request, were the headers left off a follow-up request.
NoAuthWire(method, endpoint, kwargs) ==
    [method  |-> method,
     url     |-> url_prefix \o endpoint,
     headers |-> IF "json" \in DOMAIN kwargs /\ "start_cursor" \in DOMAIN kwargs["json"]
                 THEN [ContentType |-> "application/json"]
                 ELSE headers,
     kwargs  |-> kwargs]

\* Client.request up to the network call: the request put on the wire.
Wire(method, endpoint, kwargs) ==
    [method  |-> method,
     url     |-> url_prefix \o endpoint,
     headers |-> headers,
     kwargs  |-> kwargs]

\* Endpoint._build_endpoint: name/action, or name alone when action is None
\* (an action is a sequence of path segments, None the empty one).
BuildEndpoint(name, action) ==
    IF action # <<>> THEN <<name>> \o action ELSE <<name>>

JsonKw(payload) == [k \in {"json"} |-> payload]

\* ----------------------------------------------------------------- server

Cursor(i) == "cursor" \o ToString(i)

\* Page i of a listing of srvPages pages; the server leaves has_more out of
\* page srvBareAt.
Page(i) ==
    LET results     == IF i % 2 = 1 THEN << <<i, "a">>, <<i, "b">> >> ELSE << <<i, "c">> >>
        next_cursor == IF i < srvPages THEN Cursor(i + 1) ELSE None
    IN IF i = srvBareAt
       THEN [results |-> results, next_cursor |-> next_cursor]
       ELSE [results |-> results, has_more |-> i < srvPages, next_cursor |-> next_cursor]

\* The page a request asks for: the first one without a start_cursor, 0 for a
\* cursor the server never issued.
PageAsked(req) ==
    IF "json" \in DOMAIN req.kwargs /\ "start_cursor" \in DOMAIN req.kwargs["json"]
    THEN IF \E i \in 1..srvPages : Cursor(i) = req.kwargs["json"]["start_cursor"]
         THEN CHOOSE i \in 1..srvPages : Cursor(i) = req.kwargs["json"]["start_cursor"]
         ELSE 0
    ELSE 1

\* The server's answer to a request of a listing; r.raise_for_status() raises
\* on ok = FALSE, r.json() is body otherwise.
ListResponse(req) ==
    LET i == PageAsked(req) IN
    IF i = 0 \/ i = srvFailAt
    THEN [ok |-> FALSE, body |-> [object |-> "error"]]
    ELSE [ok |-> TRUE, body |-> Page(i)]

\* The server's answers to a single-entity request.
SingleResponses ==
    { [ok |-> FALSE, body |-> [object |-> "error"]] } \cup
    { [ok |-> TRUE, body |-> [object |-> "entity", has_more |-> TRUE, next_cursor |-> Cursor(2)]],
      [ok |-> TRUE, body |-> [object |-> "entity"]] }

\* -------------------------------------------------------------- endpoints

ListOps == {"databases.query", "databases.list", "blocks.children.list",
            "blocks.children.append", "users.list", "search"}

SingleOps == {"databases.create", "databases.update", "databases.retrieve",
              "pages.retrieve", "pages.create", "pages.update",
              "blocks.retrieve", "blocks.update", "blocks.delete",
              "users.retrieve", "users.me"}

\* The operations whose first positional argument is an identifier.
TakesId == {"databases.query", "blocks.children.list", "blocks.children.append",
            "databases.update", "databases.retrieve", "pages.retrieve",
            "pages.update", "blocks.retrieve", "blocks.update", "blocks.delete",
            "users.retrieve"}

\* The list/query calls the consumer makes: the method and its **payload.
ListCalls ==
    { <<"databases.query", FruitPayload>>, <<"databases.list", EmptyDict>>,
      <<"blocks.children.list", PagePayload>>, <<"blocks.children.append", ChildrenPayload>>,
      <<"users.list", EmptyDict>>, <<"search", FruitPayload>> }

ArgsOf(op, id) == IF op \in TakesId THEN <<id>> ELSE <<>>

\* The request a list/query method issues when its body runs.
ListRequest(op, args, payload) ==
    CASE op = "databases.query" ->
           Wire("POST", BuildEndpoint("databases", <<args[1], "query">>), JsonKw(payload))
      [] op = "databases.list" ->
           Wire("GET", BuildEndpoint("databases", <<>>), JsonKw(payload))
      [] op = "blocks.children.list" ->
           Wire("GET", <<"blocks", args[1], "children">>, JsonKw(payload))
      [] op = "blocks.children.append" ->
           Wire("PATCH", <<"blocks", args[1], "children">>, JsonKw(payload))
      [] op = "users.list" ->
           Wire("GET", BuildEndpoint("users", <<>>), JsonKw(payload))
      [] op = "search" ->
           Wire("POST", BuildEndpoint("search", <<>>), JsonKw(payload))

\* The request a single-entity method issues.
SingleRequest(op, args, payload) ==
    CASE op = "databases.create" ->
           Wire("POST", BuildEndpoint("databases", <<>>), JsonKw(payload))
      [] op = "databases.update" ->
           Wire("PATCH", BuildEndpoint("databases", <<args[1]>>), JsonKw(payload))
      [] op = "databases.retrieve" ->
           Wire("GET", BuildEndpoint("databases", <<args[1]>>), JsonKw(payload))
      [] op = "pages.retrieve" ->
           Wire("GET", BuildEndpoint("pages", <<args[1]>>), JsonKw(payload))
      [] op = "pages.create" ->
           Wire("POST", BuildEndpoint("pages", <<>>), JsonKw(payload))
      [] op = "pages.update" ->
           Wire("PATCH", BuildEndpoint("pages", <<args[1]>>), JsonKw(payload))
      [] op = "blocks.retrieve" ->
           Wire("GET", BuildEndpoint("blocks", <<args[1]>>), JsonKw(payload))
      [] op = "blocks.update" ->
           Wire("PATCH", BuildEndpoint("blocks", <<args[1]>>), JsonKw(payload))
      [] op = "blocks.delete" ->
           Wire("DELETE", BuildEndpoint("blocks", <<args[1]>>), JsonKw(payload))
      [] op = "users.retrieve" ->
           Wire("GET", BuildEndpoint("users", <<args[1]>>), JsonKw(payload))
      [] op = "users.me" ->
           Wire("GET", BuildEndpoint("users", <<"me">>), EmptyDict)

\* A single-entity method, were it to follow a has_more in its response.
SingleCallPaginating(op, args, payload, resp) ==
    LET first == SingleRequest(op, args, payload)
        more  == resp.ok /\ "has_more" \in DOMAIN resp.body /\ resp.body["has_more"]
    IN [reqs   |-> IF more
                   THEN <<first, [first EXCEPT !.kwargs =
                                    JsonKw(SetKey(payload, "start_cursor",
                                                  resp.body["next_cursor"]))]>>
                   ELSE <<first>>,
        raised |-> ~resp.ok,
        ret    |-> IF resp.ok THEN resp.body ELSE EmptyDict]

\* A single-entity method, the server answering resp: the requests it issues,
\* whether it raises, and the mapping it returns.
SingleCall(op, args, payload, resp) ==
    [reqs   |-> <<SingleRequest(op, args, payload)>>,
     raised |-> ~resp.ok,
     ret    |-> IF resp.ok THEN resp.body ELSE EmptyDict]

\* ------------------------------------------------------------- generators

\* The generator object a call of a list/query method
\* returns: nothing of its body has run.
NewGen(op, args, payload) ==
    [op |-> op, args |-> args, payload |-> payload, pc |-> "start",
     data |-> EmptyDict, out |-> <<>>, last |-> "none", raised |-> FALSE]

\* paginate, were line 74 (the cursor alone) taken in place of line 72.
CursorOnlyKwargs(kwargs, data) ==
    [k \in {"start_cursor"} |-> data["next_cursor"]]

\* paginate, lines 71-74: the kwargs of the follow-up call (kwargs is never
\* None, so line 72 runs).
PaginateKwargs(kwargs, data) ==
    SetKey(kwargs, "start_cursor", data["next_cursor"])

\* paginate, were line 70 to ignore has_more.
AlwaysMore(data) == TRUE

\* paginate, line 70: whether a follow-up call is made after `yield data`.
HasMore(data) == data["has_more"]

\* The method body, were it to fetch the page after the one demanded as well.
PrefetchingBodyRequests(g) ==
    LET req  == ListRequest(g.op, g.args, g.payload)
        resp == ListResponse(req)
    IN IF resp.ok /\ "has_more" \in DOMAIN resp.body /\ resp.body["has_more"]
       THEN <<req, ListRequest(g.op, g.args, PaginateKwargs(g.payload, resp.body))>>
       ELSE <<req>>

\* The requests the method body of generator g issues on its way to the
\* first yield: the one request of its first line.
BodyRequests(g) == <<ListRequest(g.op, g.args, g.payload)>>

\* The first next() on a generator, the server answering resp: the method's
\* request was issued; a failure raises out of the generator, a success runs
\* to paginate's `yield data`.
EnterBody(g, resp) ==
    IF resp.ok
    THEN [g EXCEPT !.pc = "data", !.data = resp.body,
                   !.out = Append(@, resp.body), !.last = "page"]
    ELSE [g EXCEPT !.pc = "done", !.last = "HTTPError", !.raised = TRUE]

\* paginate, were line 70 to read has_more leniently (a missing flag taken
\* as false).
LenientOutcome(data) ==
    IF "has_more" \notin DOMAIN data THEN "done"
    ELSE IF ~HasMore(data) THEN "done"
    ELSE IF "next_cursor" \notin DOMAIN data THEN "KeyError"
    ELSE "more"

\* paginate, lines 70-72, on the page just yielded: data['has_more'] and
\* data['next_cursor'] raise KeyError on a missing key; otherwise has_more
\* decides between the follow-up call and the return.
AfterDataOutcome(data) ==
    IF "has_more" \notin DOMAIN data THEN "KeyError"
    ELSE IF ~HasMore(data) THEN "done"
    ELSE IF "next_cursor" \notin DOMAIN data THEN "KeyError"
    ELSE "more"

\* The generator after an exception left it: finished, the error raised to
\* the consumer by this next().
Raise(g, error) == [g EXCEPT !.pc = "done", !.last = error, !.raised = TRUE]

\* paginate lines 70-75, were the cursor written to a mapping every call of
\* the client shares.
SharedKwargsAfterData(gs, c, d) ==
    LET g == gs[c][d] IN
    IF AfterDataOutcome(g.data) = "KeyError"
    THEN [gs EXCEPT ![c][d] = Raise(g, "KeyError")]
    ELSE IF AfterDataOutcome(g.data) = "more"
    THEN [s \in DOMAIN gs |->
            IF s = c
            THEN Append([gs[c] EXCEPT ![d] =
                           [g EXCEPT !.pc = "fn", !.last = "generator",
                                     !.out = Append(@, [generator |-> d + 1])]],
                        NewGen(g.op, g.args, PaginateKwargs(g.payload, g.data)))
            ELSE [e \in DOMAIN gs[s] |->
                    [gs[s][e] EXCEPT !.payload = PaginateKwargs(@, g.data)]]]
    ELSE [gs EXCEPT ![c][d] = [g EXCEPT !.pc = "done", !.last = "stop"]]

\* next() on generator d of call c suspended at `yield data`: paginate
\* lines 70-75. gs is the generators of every call. The follow-up call
\* fn(..) of line 75 is a call of a generator function: it makes generator
\* d + 1, not yet started, and that object is what line 75 yields.
ResumeAfterData(gs, c, d) ==
    LET g == gs[c][d] IN
    IF AfterDataOutcome(g.data) = "KeyError"
    THEN [gs EXCEPT ![c][d] = Raise(g, "KeyError")]
    ELSE IF AfterDataOutcome(g.data) = "more"
    THEN [gs EXCEPT ![c] =
            Append([gs[c] EXCEPT ![d] =
                      [g EXCEPT !.pc = "fn", !.last = "generator",
                                !.out = Append(@, [generator |-> d + 1])]],
                   NewGen(g.op, g.args, PaginateKwargs(g.payload, g.data)))]
    ELSE [gs EXCEPT ![c][d] = [g EXCEPT !.pc = "done", !.last = "stop"]]

\* ------------------------------------------------------------------- Init

Init ==
    /\ auth \in Tokens
    /\ headers = MakeHeaders(auth, NOTION_VERSION)
    /\ url_prefix = MakeUrlPrefix(API_VERSION)
    /\ srvPages \in 1..MaxPages
    /\ srvFailAt \in 0..srvPages
    /\ srvBareAt \in 0..srvPages
    /\ srvFailAt = 0 \/ srvBareAt = 0
    /\ status = [c \in Slots |-> "idle"]
    /\ callerParams = [c \in Slots |-> EmptyDict]
    /\ gens = [c \in Slots |-> <<>>]
    /\ ret = [c \in Slots |-> EmptyDict]
    /\ log = [c \in Slots |-> <<>>]

client == <<headers, url_prefix, auth, srvPages, srvFailAt, srvBareAt>>

\* ---------------------------------------------------------------- actions

\* A call of a list/query method, were its first request issued by the call
\* itself.
EagerCallList(c) ==
    \E call \in ListCalls, id \in Ids :
      LET op == call[1]  payload == call[2] IN
        /\ status[c] = "idle"
        /\ status' = [status EXCEPT ![c] = "list"]
        /\ callerParams' = [callerParams EXCEPT ![c] = payload]
        /\ gens' = [gens EXCEPT ![c] = <<NewGen(op, ArgsOf(op, id), payload)>>]
        /\ log' = [log EXCEPT ![c] = <<ListRequest(op, ArgsOf(op, id), payload)>>]
        /\ UNCHANGED <<client, ret>>

\* A call of a list/query method: a generator object comes back.
CallList(c) ==
    \E call \in ListCalls, id \in Ids :
      LET op == call[1]  payload == call[2] IN
        /\ status[c] = "idle"
        /\ status' = [status EXCEPT ![c] = "list"]
        /\ callerParams' = [callerParams EXCEPT ![c] = payload]
        /\ gens' = [gens EXCEPT ![c] = <<NewGen(op, ArgsOf(op, id), payload)>>]
        /\ UNCHANGED <<client, ret, log>>

\* A call of a single-entity method: one request, the decoded body returned
\* or the failure raised.
CallSingle(c) ==
    \E op \in SingleOps, id \in Ids, resp \in SingleResponses :
      LET payload == IF op = "users.me" THEN EmptyDict ELSE FruitPayload
          r == SingleCall(op, ArgsOf(op, id), payload, resp) IN
        /\ status[c] = "idle"
        /\ callerParams' = [callerParams EXCEPT ![c] = payload]
        /\ log' = [log EXCEPT ![c] = @ \o r.reqs]
        /\ status' = [status EXCEPT ![c] = IF r.raised THEN "raised" ELSE "returned"]
        /\ ret' = [ret EXCEPT ![c] = r.ret]
        /\ UNCHANGED <<client, gens>>

\* next() on a generator not yet started: the method body runs to its first
\* yield.
NextStart(c, d) ==
    /\ d \in DOMAIN gens[c]
    /\ gens[c][d].pc = "start"
    /\ LET g    == gens[c][d]
           reqs == BodyRequests(g)
       IN /\ log' = [log EXCEPT ![c] = @ \o reqs]
          /\ gens' = [gens EXCEPT ![c][d] = EnterBody(g, ListResponse(reqs[1]))]
    /\ UNCHANGED <<client, status, callerParams, ret>>

\* next() on a generator suspended at `yield data`.
NextAfterData(c, d) ==
    /\ d \in DOMAIN gens[c]
    /\ gens[c][d].pc = "data"
    /\ gens' = ResumeAfterData(gens, c, d)
    /\ UNCHANGED <<client, status, callerParams, ret, log>>

\* next() on a generator suspended at `yield fn(..)`: paginate returns.
NextAfterFn(c, d) ==
    /\ d \in DOMAIN gens[c]
    /\ gens[c][d].pc = "fn"
    /\ gens' = [gens EXCEPT ![c][d].pc = "done", ![c][d].last = "stop"]
    /\ UNCHANGED <<client, status, callerParams, ret, log>>

\* next() on a finished generator: StopIteration.
NextDone(c, d) ==
    /\ d \in DOMAIN gens[c]
    /\ gens[c][d].pc = "done"
    /\ gens' = [gens EXCEPT ![c][d].last = "stop"]
    /\ UNCHANGED <<client, status, callerParams, ret, log>>

Next ==
    \E c \in Slots :
        \/ CallList(c)
        \/ CallSingle(c)
        \/ \E d \in 1..MaxPages + 1 :
              \/ NextStart(c, d)
              \/ NextAfterData(c, d)
              \/ NextAfterFn(c, d)
              \/ NextDone(c, d)

Spec == Init /\ [][Next]_vars

\* ------------------------------------------------------------ properties

\* The calls that returned a generator, and the generator the consumer holds.
Listings == {c \in Slots : status[c] = "list"}

Top(c) == gens[c][1]

\* An element that is a Page: a decoded response with a results field.
IsPage(e) == "results" \in DOMAIN e

RECURSIVE ConcatResults(_)
ConcatResults(elems) ==
    IF elems = <<>> THEN <<>>
    ELSE Head(elems)["results"] \o ConcatResults(Tail(elems))

\* The pages the server serves up to the first has_more = false.
ServerPages == [i \in 1..srvPages |-> Page(i)]

\* C1: consumed to exhaustion against a server that never fails, a list/query
\* sequence produces as many elements as the server has pages up to the first
\* has_more = false.
C1_CountEqualsPages ==
    \A c \in Listings :
        (Top(c).pc = "done" /\ srvFailAt = 0 /\ srvBareAt = 0)
            => Len(Top(c).out) = srvPages

\* C2: every element a list/query sequence produces is a Page, and the
\* results of the elements of an exhausted sequence, concatenated in order,
\* are the server's results in server order.
C2_ElementsArePages ==
    \A c \in Listings :
        /\ \A i \in DOMAIN Top(c).out : IsPage(Top(c).out[i])
        /\ (Top(c).pc = "done" /\ srvFailAt = 0 /\ srvBareAt = 0)
              => ConcatResults(Top(c).out) = ConcatResults(ServerPages)

\* C3: a generator whose initial page has has_more = false produces that page
\* and nothing else, makes no follow-up call and issues no request beyond the
\* one that obtained the page.
C3_SinglePageNoFetch ==
    \A c \in Listings : \A d \in DOMAIN gens[c] :
        LET g == gens[c][d] IN
        (g.out # <<>> /\ "has_more" \in DOMAIN g.out[1] /\ ~g.out[1]["has_more"])
            => /\ g.out = <<g.data>>
               /\ g.data = Page(d)
               /\ Len(gens[c]) = d
               /\ Len(log[c]) = d

C3_Witness ==
    \E c \in Listings :
        /\ Top(c).pc = "done" /\ Top(c).last = "stop"
        /\ Top(c).out # <<>> /\ "has_more" \in DOMAIN Top(c).out[1]
        /\ ~Top(c).out[1]["has_more"]
        /\ Len(log[c]) = 1

\* C4: every follow-up call made after a page with has_more = true and
\* next_cursor = C gets start_cursor = C and every other parameter of the
\* original call, at every step, and its request carries exactly that; the
\* caller's own mapping stays what the first request carried.
C4_CursorThreaded ==
    \A c \in Listings :
        /\ \A d \in DOMAIN gens[c] : d >= 2 =>
             LET prev == gens[c][d - 1].data
                 kw   == SetKey(callerParams[c], "start_cursor", prev["next_cursor"])
             IN /\ prev["has_more"]
                /\ gens[c][d].payload = kw
                /\ gens[c][d].args = Top(c).args
                /\ gens[c][d].op = Top(c).op
                /\ d \in DOMAIN log[c] =>
                     /\ log[c][d].kwargs = JsonKw(kw)
                     /\ log[c][d].method = log[c][1].method
                     /\ log[c][d].url = log[c][1].url
        /\ Top(c).payload = callerParams[c]
        /\ log[c] # <<>> => log[c][1].kwargs = JsonKw(callerParams[c])

C4_Witness ==
    \E c \in Listings :
        /\ Len(log[c]) >= 3
        /\ callerParams[c] = FruitPayload
        /\ log[c][3].kwargs["json"]["start_cursor"] = Cursor(3)

\* C5: a pull that produces element n >= 2 of a list/query sequence issues
\* exactly one HTTP request during that pull.
C5_OneRequestPerPull ==
    [][\A c \in Listings :
          (Len(Top(c).out) >= 1 /\ Len(gens'[c][1].out) = Len(Top(c).out) + 1)
              => Len(log'[c]) = Len(log[c]) + 1]_vars

\* C6: when the server fails fetch N of a listing, the sequence produces
\* elements 1..N-1 only, and it ends by raising the failure.
C6_FailureAtElementN ==
    \A c \in Listings :
        srvFailAt >= 1 =>
            /\ Len(Top(c).out) <= srvFailAt - 1
            /\ Top(c).pc = "done" =>
                  (Top(c).raised /\ Len(Top(c).out) = srvFailAt - 1)

\* C7: a sequence that ended without raising ended on a page that reports
\* has_more = false.
C7_EndsOnLastPage ==
    \A c \in Listings :
        (Top(c).pc = "done" /\ ~Top(c).raised) => ~Top(c).data["has_more"]

\* C8: a single-entity call issues exactly one request, creates no generator
\* and returns the decoded body whatever has_more it carries; a list/query
\* call issues requests only from its generators, one per generator entered,
\* and its first element is the first page whenever the first fetch succeeds.
C8_SingleNeverPaginates ==
    \A c \in Slots :
        /\ status[c] \in {"returned", "raised"} =>
             /\ Len(log[c]) = 1
             /\ gens[c] = <<>>
             /\ "start_cursor" \notin DOMAIN callerParams[c]
             /\ status[c] = "returned" =>
                  \E r \in SingleResponses : r.ok /\ ret[c] = r.body
        /\ status[c] = "list" =>
             /\ Len(log[c]) = Cardinality({d \in DOMAIN gens[c] : gens[c][d].pc # "start"})
             /\ (Top(c).pc # "start" /\ srvFailAt # 1) =>
                  (Top(c).out # <<>> /\ Top(c).out[1] = Page(1))

C8_Witness ==
    /\ \E c \in Slots : status[c] = "returned" /\ "has_more" \in DOMAIN ret[c]
                        /\ ret[c]["has_more"] /\ Len(log[c]) = 1
    /\ \E c \in Listings : Top(c).out # <<>> /\ Top(c).out[1] = Page(1)

\* What call c issues and produces when it is the only call consumed: request
\* i is the method's request with the caller's payload, carrying the cursor of
\* page i from the second on, and generator d produces page d first.
AsAlone(c) ==
    /\ \A i \in DOMAIN log[c] :
          log[c][i] = ListRequest(Top(c).op, Top(c).args,
                                  IF i = 1 THEN callerParams[c]
                                  ELSE SetKey(callerParams[c], "start_cursor", Cursor(i)))
    /\ \A d \in DOMAIN gens[c] :
          /\ gens[c][d].out # <<>> => gens[c][d].out[1] = Page(d)
          /\ Len(gens[c][d].out) = 2 => gens[c][d].out[2] = [generator |-> d + 1]

\* C9: a step of one call's sequence leaves every other call's generators,
\* parameters and requests as they were, and each sequence issues the
\* requests and produces the elements it would if consumed alone.
C9_Independent ==
    [][\A c \in Slots :
          /\ (gens'[c] # gens[c] \/ log'[c] # log[c]) =>
                \A s \in Slots \ {c} :
                    /\ gens'[s] = gens[s]
                    /\ log'[s] = log[s]
                    /\ callerParams'[s] = callerParams[s]
                    /\ ret'[s] = ret[s]
          /\ status'[c] = "list" => AsAlone(c)']_vars

C9_Witness ==
    /\ Listings = Slots
    /\ \A c \in Slots : Len(log[c]) >= 2
    /\ \E c \in Slots : Len(gens[c]) = 3 /\ Len(gens[3 - c]) = 2

\* C10: every request issued carries the Authorization and Notion-Version
\* headers made at construction and the URL prefix made at construction, and
\* the client's header set and URL prefix never change.
C10_HeadersFixed ==
    /\ headers = MakeHeaders(auth, NOTION_VERSION)
    /\ url_prefix = MakeUrlPrefix(API_VERSION)
    /\ \A c \in Slots : \A i \in DOMAIN log[c] :
          /\ DOMAIN log[c][i].headers = DOMAIN MakeHeaders(auth, NOTION_VERSION)
          /\ log[c][i].headers.Authorization = <<"Bearer", auth>>
          /\ log[c][i].headers.NotionVersion = NOTION_VERSION
          /\ SubSeq(log[c][i].url, 1, 2) = <<BASE_URL, API_VERSION>>

C10_Witness ==
    /\ \E c \in Listings : Len(log[c]) >= 2
    /\ \E c \in Slots : status[c] = "returned" /\ Len(log[c]) = 1

RECURSIVE SumOver(_, _)
SumOver(f, n) == IF n = 0 THEN 0 ELSE f[n] + SumOver(f, n - 1)

\* The outcomes call c has delivered to its consumer: every element a
\* generator of the call yielded and every end (StopIteration or a raised
\* error) was delivered by one next() the consumer made, so the consumer has
\* demanded at least that many.
Delivered(c) ==
    SumOver([d \in DOMAIN gens[c] |->
                Len(gens[c][d].out) + (IF gens[c][d].pc = "done" THEN 1 ELSE 0)],
            Len(gens[c]))

\* C11: a listing has issued at most as many requests as outcomes were
\* delivered to its consumer, and a request is issued only in a step that
\* delivers one outcome to the consumer, one request in that step: nothing is
\* fetched ahead or while the consumer is not pulling.
C11_NoPrefetch ==
    [][\A c \in Slots :
          status'[c] = "list" =>
             /\ Len(log'[c]) <= Delivered(c)'
             /\ log'[c] # log[c] =>
                   /\ Len(log'[c]) = Len(log[c]) + 1
                   /\ Delivered(c)' = Delivered(c) + 1]_vars

C11_Witness ==
    /\ \E c \in Listings : Len(log[c]) = 3 /\ Delivered(c) >= 5
    /\ \E c \in Listings : Len(gens[c]) = 2 /\ gens[c][2].pc = "start"
                            /\ Top(c).pc = "done" /\ Len(log[c]) = 1

\* C12: a page that lacks has_more is handled the same way at every
\* position, by the consumer's generator and by any generator it yielded: the
\* page is yielded, the next() after it raises KeyError (never a silent end),
\* no follow-up call or request is made, and what the earlier generators
\* yielded stays as it was.
C12_MissingFlagRaises ==
    \A c \in Listings : \A d \in DOMAIN gens[c] :
        LET g == gens[c][d] IN
        (g.out # <<>> /\ "has_more" \notin DOMAIN g.out[1]) =>
            /\ g.out = <<Page(d)>>
            /\ g.pc \in {"data", "done"}
            /\ g.pc = "done" => g.raised /\ g.last \in {"KeyError", "stop"}
            /\ Len(gens[c]) = d
            /\ Len(log[c]) = d
            /\ \A e \in 1..(d - 1) :
                  gens[c][e].out = <<Page(e), [generator |-> e + 1]>>

C12_Witness ==
    \E c \in Listings :
        /\ Len(gens[c]) = 3
        /\ "has_more" \notin DOMAIN gens[c][3].data
        /\ gens[c][3].raised /\ gens[c][3].last = "KeyError"
        /\ Len(log[c]) = 3

C12_WitnessFirst ==
    \E c \in Listings :
        /\ srvBareAt = 1
        /\ Top(c).raised /\ Top(c).last = "KeyError" /\ Top(c).out = <<Page(1)>>

\* C13: a call of a list/query method issues no request; the method's request
\* is issued by the first next() on the generator the call returned, and a
\* failure of that request is raised by that next(), the call having
\* returned the generator.
C13_CallIssuesNoRequest ==
    \A c \in Listings :
        /\ Top(c).pc = "start" =>
              /\ log[c] = <<>>
              /\ Top(c).out = <<>> /\ ~Top(c).raised
        /\ Top(c).pc # "start" =>
              /\ log[c] # <<>>
              /\ log[c][1] = ListRequest(Top(c).op, Top(c).args, callerParams[c])
        /\ (Top(c).pc # "start" /\ srvFailAt = 1) =>
              /\ Top(c).raised /\ Top(c).out = <<>>
              /\ Len(log[c]) = 1

C13_Witness ==
    /\ srvFailAt = 1
    /\ \E c \in Listings : /\ Top(c).op = "blocks.children.append"
                            /\ Top(c).pc = "start" /\ log[c] = <<>>
    /\ \E c \in Listings : /\ Top(c).raised /\ Top(c).last = "HTTPError"
                            /\ Len(log[c]) = 1

\* The PATCH requests call c has sent.
Patches(c) == {i \in DOMAIN log[c] : log[c][i].method = "PATCH"}

\* C14: a call of blocks.children.append sends its PATCH once its sequence
\* is consumed and never a second one, whatever has_more and next_cursor the
\* responses carry.
C14_AppendSentOnce ==
    \A c \in Listings :
        Top(c).op = "blocks.children.append" =>
            Cardinality(Patches(c)) = (IF Top(c).pc = "start" THEN 0 ELSE 1)

TypeOK ==
    /\ \A c \in Slots : status[c] \in {"idle", "list", "returned", "raised"}
    /\ \A c \in Slots : Len(gens[c]) <= MaxPages
====
